---- MODULE Spec2Model ----
(***************************************************************************)
(* Job lifecycle and execution subsystem of Yoink: the SQLite job store    *)
(* (yoink/api/jobs.py), the sequential extraction worker                   *)
(* (yoink/api/worker.py), the pipeline thread it starts                    *)
(* (yoink/pipeline.py), the request handlers that feed it                  *)
(* (yoink/api/routes.py), the result publisher (yoink/api/storage.py) and  *)
(* the cleanup loop (yoink/api/app.py).                                    *)
(***************************************************************************)
EXTENDS Integers, Sequences, FiniteSets, TLC

\* ---------------------------------------------------------------- bounds
MaxJobs == 2
MaxTasks == 2
MaxPages == 2
MaxRows == 2
MaxHour == 1
MaxArtifacts == 9
MaxFaulty == 1
MaxSweepHour == 13
MaxFeedback == 1

JobIds == 1..MaxJobs
TaskIds == 1..MaxTasks

\* ------------------------------------------------------------- job store
NULL == "NULL"

VALID_STATUSES == {"queued", "processing", "completed", "failed", "delivered"}

\* Columns of the jobs table (JOBS_SCHEMA).
JobsColumns ==
    {"id", "status", "filename", "upload_path", "result_path", "error",
     "current_page", "total_pages", "created_at", "updated_at"}

\* str(e) of the exceptions the model distinguishes: the ones raised by the
\* pipeline and the guest copy (every raise of the repository carries a
\* message), and SQLite's for an unknown column.
ErrJob == "ConversionError: Unsupported file type"
ErrColumn == "no such column: total_components"

ResultPath(id) == "job_data/" \o ToString(id) \o "/upload_extracted.json"

VARIABLES
    jobs,       \* the jobs table: job id -> row, for the rows that exist
    issued,     \* ids create_job has generated so far
    queue,      \* ExtractionWorker._queue
    task,       \* ExtractionWorker._task: 0 is None, else a consumer task
    cons,       \* the _process_loop tasks ever created: position and locals
    thread,     \* per job, the to_thread call running run_pipeline
    pending,    \* update_progress coroutines handed to the event loop
    outdir,     \* jobs whose output directory {output_base_dir}/{id} exists
    guestdir,   \* jobs whose directory static/guest/{id} exists
    enqOrder,   \* history: ids in the order enqueue appended them
    deqOrder,   \* history: ids in the order queue.get returned them
    procOrder,  \* history: ids in the order their row was set to processing
    termOrder,  \* history: ids in the order their row was set completed/failed
    abandoned,  \* history: jobs in flight in a consumer that stop() cancelled
    rows,       \* JobStore on its own: the jobs table with every column
    now,        \* JobStore on its own: the UTC clock datetime.now reads
    ret,        \* JobStore on its own: what the last call returned or raised
    born,       \* history: per row id, the clock at its create_job
    comps,      \* publisher: the components of the result JSON
    up,         \* publisher: per uploaded component, its _upload task
    sem,        \* publisher: the value of the Semaphore
    bucket,     \* publisher: the object paths stored in the bucket
    pub,        \* publisher: where the _handle_user_result call is
    meta,       \* publisher: the list upload_components_to_supabase builds
    catalog,    \* publisher: rows inserted into the Supabase jobs table
    pstatus,    \* publisher: status of the job's row in the job store
    del,        \* delete_job_from_supabase: its position and the listed files
    slept,      \* history: per _upload task, the waits it has slept (seconds)
    sw,         \* _cleanup_loop: its position, the rows it listed, its history
    feedback,   \* the feedback table: feedback id -> row
    cu          \* cleanup_old_jobs: its old_jobs, and what the calls reported

workerVars == <<jobs, issued, queue, task, cons, thread, pending, outdir, guestdir,
                enqOrder, deqOrder, procOrder, termOrder, abandoned>>
storeVars == <<rows, now, ret, born>>
pubVars == <<comps, up, sem, bucket, pub, meta, catalog, pstatus, del, slept>>
otherVars == <<storeVars, pubVars, sw, feedback, cu>>

vars == <<workerVars, storeVars, pubVars, sw, feedback, cu>>

Range(s) == {s[i] : i \in DOMAIN s}

\* INSERT INTO jobs (id, status, ...) VALUES (?, 'queued', ...); the counters
\* take the schema defaults, result_path and error stay NULL.
NewRow ==
    [status |-> "queued", result_path |-> NULL, error |-> NULL,
     current_page |-> 0, total_pages |-> 0]

\* JobStore.get_job answers None: fetchone() found no row with that id.
GetJobIsNone(js, id) == id \notin DOMAIN js

\* Mutant of UpdateStatusRaises: update_status without its assert.
UpdateStatusRaisesNoAssert(status, kw) ==
    \E k \in DOMAIN kw : k \notin JobsColumns

\* JobStore.update_status raises: the assert on the status, or SQLite
\* rejecting a SET clause that names a column the table does not have.
UpdateStatusRaises(status, kw) ==
    \/ status \notin VALID_STATUSES
    \/ \E k \in DOMAIN kw : k \notin JobsColumns

\* Mutant of UpdateStatus: the UPDATE without its WHERE clause.
UpdateStatusNoWhere(js, id, status, kw) ==
    [j \in DOMAIN js |->
        [f \in DOMAIN js[j] |->
            IF f = "status" THEN status
            ELSE IF f \in DOMAIN kw THEN kw[f] ELSE js[j][f]]]

\* Mutant of UpdateStatus: the UPDATE sets the extra fields, not the status.
UpdateStatusFieldsOnly(js, id, status, kw) ==
    IF id \in DOMAIN js
    THEN [js EXCEPT ![id] =
            [f \in DOMAIN @ |-> IF f \in DOMAIN kw THEN kw[f] ELSE @[f]]]
    ELSE js

\* JobStore.update_status: UPDATE jobs SET status = ?, <kw> WHERE id = ?
\* (no row with that id: nothing is updated, nothing is inserted).
UpdateStatus(js, id, status, kw) ==
    IF id \in DOMAIN js
    THEN [js EXCEPT ![id] =
            [f \in DOMAIN @ |->
                IF f = "status" THEN status
                ELSE IF f \in DOMAIN kw THEN kw[f] ELSE @[f]]]
    ELSE js

\* Mutant of UpdateProgress: INSERT OR REPLACE in place of UPDATE.
UpdateProgressUpsert(js, id, cur, tot) ==
    [j \in DOMAIN js \cup {id} |->
        IF j = id
        THEN [status |-> "processing", result_path |-> NULL, error |-> NULL,
              current_page |-> cur, total_pages |-> tot]
        ELSE js[j]]

\* Mutant of UpdateProgress: an update that never lowers a counter.
UpdateProgressMonotone(js, id, cur, tot) ==
    IF id \in DOMAIN js
    THEN [js EXCEPT
            ![id].current_page = IF cur > @ THEN cur ELSE @,
            ![id].total_pages = IF tot > @ THEN tot ELSE @]
    ELSE js

\* JobStore.update_progress: unconditional overwrite of both counters.
UpdateProgress(js, id, cur, tot) ==
    IF id \in DOMAIN js
    THEN [js EXCEPT ![id].current_page = cur, ![id].total_pages = tot]
    ELSE js

\* Mutant of DeleteRow: a feedback table with FOREIGN KEY (job_id) REFERENCES
\* jobs(id): the DELETE of a row that has feedback is refused.
DeleteRowRestrict(js, id) ==
    IF \E f \in DOMAIN feedback : feedback[f].job_id = id
    THEN js
    ELSE [j \in DOMAIN js \ {id} |-> js[j]]

\* JobStore.delete_job: DELETE FROM jobs WHERE id = ?
DeleteRow(js, id) == [j \in DOMAIN js \ {id} |-> js[j]]

\* --------------------------------------------------- job store on its own
\* The JobStore driven directly by its callers, with every column of the
\* table and the clock its timestamps are read from.
StoreIds == 1..MaxRows

\* The microseconds of a clock reading: isoformat tells 0 from the rest.
Micros == {0, 7}

\* A reading of datetime.now(timezone.utc): the whole part (date, hour,
\* minute, second: fixed-width fields) and the microseconds.
Times == [h : 0..MaxHour, us : Micros]

\* Chronological order of two clock readings.
Before(a, b) == a.h < b.h \/ (a.h = b.h /\ a.us < b.us)

\* The characters of a timestamp in ascending code order (SQLite compares
\* TEXT bytewise): "+" is 0x2B, "." is 0x2E, the digits are 0x30..0x39.
AsciiOrder == <<"+", ".", "0", "1", "2", "3", "4", "5", "6", "7", "8", "9">>

Code(c) == CHOOSE i \in DOMAIN AsciiOrder : AsciiOrder[i] = c

Digit(d) == AsciiOrder[d + 3]

\* A zero-padded fixed-width decimal field (%02d, %06d).
Field(n) == <<Digit(n \div 10), Digit(n % 10)>>

\* datetime.isoformat() of an aware UTC datetime: the fixed-width whole
\* part, then ".ffffff" only when the microseconds are not 0, then the
\* offset "+00:00".
IsoFormat(t) ==
    Field(t.h) \o (IF t.us = 0 THEN <<>> ELSE <<".">> \o Field(t.us)) \o <<"+">>

\* Mutant of TextLess: "<=" in place of "<".
TextLessEq(a, b) ==
    \/ Len(a) <= Len(b) /\ \A k \in 1..Len(a) : a[k] = b[k]
    \/ \E i \in 1..Len(a) :
        /\ i <= Len(b)
        /\ \A k \in 1..(i - 1) : a[k] = b[k]
        /\ Code(a[i]) < Code(b[i])

\* SQLite's "<" on two TEXT values (BINARY collation): bytewise, a proper
\* prefix is the smaller.
TextLess(a, b) ==
    \/ Len(a) < Len(b) /\ \A k \in 1..Len(a) : a[k] = b[k]
    \/ \E i \in 1..Len(a) :
        /\ i <= Len(b)
        /\ \A k \in 1..(i - 1) : a[k] = b[k]
        /\ Code(a[i]) < Code(b[i])

\* timedelta(hours=age) subtracted from a reading: the microseconds stay.
HoursBefore(t, age) == [t EXCEPT !.h = @ - age]

\* The upload a request saved for the n-th job: (filename, upload_path).
Uploads(n) ==
    <<"notes" \o ToString(n) \o ".pdf",
      "uploads/" \o ToString(n) \o "/notes" \o ToString(n) \o ".pdf">>

\* Mutant of FullRow: the INSERT with status 'processing'.
FullRowProcessing(filename, upload_path, t) ==
    [status |-> "processing", result_path |-> NULL, error |-> NULL,
     current_page |-> 0, total_pages |-> 0,
     filename |-> filename, upload_path |-> upload_path,
     created_at |-> IsoFormat(t), updated_at |-> IsoFormat(t)]

\* create_job's INSERT: the five columns it names; status, result_path, error
\* and the counters as in NewRow.
FullRow(filename, upload_path, t) ==
    [f \in DOMAIN NewRow \cup {"filename", "upload_path", "created_at", "updated_at"} |->
        IF f = "filename" THEN filename
        ELSE IF f = "upload_path" THEN upload_path
        ELSE IF f \in {"created_at", "updated_at"} THEN IsoFormat(t)
        ELSE NewRow[f]]

\* get_job: None, or dict(row).
GetJob(js, id) == IF GetJobIsNone(js, id) THEN NULL ELSE js[id]

\* Mutant of RowCount.
RowCountOne(before, after) == 1

\* cursor.rowcount of a DELETE: the number of rows it removed.
RowCount(before, after) == Cardinality(DOMAIN before \ DOMAIN after)

\* SELECT id, ... FROM jobs WHERE created_at < ? (the cutoff as ISO text).
OldJobs(js, cutoff) ==
    {id \in DOMAIN js : TextLess(js[id].created_at, IsoFormat(cutoff))}

\* What the last call handed back: it raised, or it returned a bool (flag)
\* or a number (n: the new id for create_job, the count for cleanup_old_jobs).
Ret(raised, flag, n) == [raised |-> raised, flag |-> flag, n |-> n]

\* The first reading of the clock.
Epoch == [h |-> 0, us |-> 0]

\* The history forgets the creation time of rows that are gone.
Forget(b, ids) == [j \in DOMAIN b |-> IF j \in ids THEN Epoch ELSE b[j]]

\* No cleanup_old_jobs call is under way: old_jobs (old), whether a call is
\* suspended between its SELECT and its DELETE (busy), and (history) the
\* rows the calls so far reported removed: the true results of delete_job
\* (deleted) and the counts of cleanup_old_jobs (swept).
NoCleanup == [old |-> {}, busy |-> FALSE, deleted |-> 0, swept |-> 0]

StoreInit ==
    /\ rows = <<>>
    /\ now = Epoch
    /\ ret = Ret(FALSE, FALSE, 0)
    /\ born = <<>>
    /\ feedback = <<>>
    /\ cu = NoCleanup

\* Time passes: the next reading of the clock is a later one.
StoreTick ==
    /\ \E t \in Times : Before(now, t) /\ now' = t
    /\ UNCHANGED <<rows, ret, born>>
    /\ UNCHANGED <<workerVars, pubVars, sw, feedback, cu>>

\* JobStore.create_job(filename, upload_path): a fresh uuid4 (the model
\* names the rows by creation rank), the INSERT, the id returned.
StoreCreateJob ==
    /\ Cardinality(DOMAIN born) < MaxRows
    /\ LET id == Cardinality(DOMAIN born) + 1
           given == Uploads(id)
       IN /\ rows' = [j \in DOMAIN rows \cup {id} |->
                        IF j = id THEN FullRow(given[1], given[2], now) ELSE rows[j]]
          /\ born' = [j \in DOMAIN born \cup {id} |-> IF j = id THEN now ELSE born[j]]
          /\ ret' = Ret(FALSE, FALSE, id)
    /\ UNCHANGED now
    /\ UNCHANGED <<workerVars, pubVars, sw, feedback, cu>>

\* JobStore.update_status(id, status, **kw): the assert, then the UPDATE
\* with status, updated_at and the extra fields.
StoreUpdateStatus(id, status, kw) ==
    /\ LET raises == UpdateStatusRaises(status, kw)
           set == [f \in DOMAIN kw \cup {"updated_at"} |->
                     IF f = "updated_at" THEN IsoFormat(now) ELSE kw[f]]
       IN /\ rows' = IF raises THEN rows ELSE UpdateStatus(rows, id, status, set)
          /\ ret' = Ret(raises, FALSE, 0)
    /\ UNCHANGED <<now, born>>
    /\ UNCHANGED <<workerVars, pubVars, sw, feedback, cu>>

\* JobStore.update_progress(id, current_page, total_pages): the UPDATE of
\* the two counters and updated_at.
StoreUpdateProgress(id, cur, tot) ==
    /\ rows' = IF id \in DOMAIN rows
                THEN [UpdateProgress(rows, id, cur, tot) EXCEPT
                        ![id].updated_at = IsoFormat(now)]
                ELSE rows
    /\ ret' = Ret(FALSE, FALSE, 0)
    /\ UNCHANGED <<now, born>>
    /\ UNCHANGED <<workerVars, pubVars, sw, feedback, cu>>

\* JobStore.delete_job(id): the DELETE, then rowcount > 0.
StoreDeleteJob(id) ==
    /\ rows' = DeleteRow(rows, id)
    /\ ret' = Ret(FALSE, RowCount(rows, DeleteRow(rows, id)) > 0, 0)
    /\ born' = Forget(born, {id})
    /\ UNCHANGED now
    /\ UNCHANGED <<workerVars, pubVars, sw, feedback, cu>>

\* JobStore.cleanup_old_jobs(age), nothing interleaved: the SELECT of the old
\* rows, "if not old_jobs: return 0", the DELETE ... WHERE id IN (...) of the
\* selected ids, return len(old_jobs).
StoreCleanupOldJobs(age) ==
    /\ age <= now.h
    /\ LET old == OldJobs(rows, HoursBefore(now, age))
       IN /\ rows' = [j \in DOMAIN rows \ old |-> rows[j]]
          /\ ret' = Ret(FALSE, FALSE, Cardinality(old))
          /\ born' = Forget(born, old)
    /\ UNCHANGED now
    /\ UNCHANGED <<workerVars, pubVars, sw, feedback, cu>>

\* type TEXT NOT NULL CHECK(type IN ('bug', 'content_violation'))
FeedbackTypes == {"bug", "content_violation"}

\* JobStore.create_feedback(job_id, feedback_type, message): a fresh uuid4
\* (the model names the entries by creation rank) and the INSERT, which the
\* CHECK on type can reject; the table has no reference to the jobs table.
StoreCreateFeedback(job_id, type, message) ==
    /\ Cardinality(DOMAIN feedback) < MaxFeedback
    /\ LET id == Cardinality(DOMAIN feedback) + 1
           raises == type \notin FeedbackTypes
           entry == [job_id |-> job_id, type |-> type, message |-> message,
                     created_at |-> IsoFormat(now)]
       IN /\ feedback' = IF raises THEN feedback
                          ELSE [f \in DOMAIN feedback \cup {id} |->
                                  IF f = id THEN entry ELSE feedback[f]]
          /\ ret' = Ret(raises, FALSE, IF raises THEN 0 ELSE id)
    /\ UNCHANGED <<rows, now, born>>
    /\ UNCHANGED <<workerVars, pubVars, sw, cu>>

\* The feedback requests: the two types, with and without a message, and
\* a type the CHECK rejects.
FeedbackCalls ==
    {<<"bug", NULL>>, <<"content_violation", "wrong crop">>, <<"praise", NULL>>}

\* The store under feedback requests, delete requests and sweeps.
FeedbackNext ==
    \/ StoreTick
    \/ StoreCreateJob
    \/ \E id \in StoreIds, c \in FeedbackCalls : StoreCreateFeedback(id, c[1], c[2])
    \/ \E id \in StoreIds : StoreDeleteJob(id)
    \/ \E age \in 0..MaxHour : StoreCleanupOldJobs(age)

\* The update_status calls: the worker's "processing" (bare) and "failed"
\* (with the error text), and a status outside VALID_STATUSES with an extra
\* field.
StatusCalls ==
    {<<"processing", <<>>>>,
     <<"failed", [error |-> ErrJob]>>, <<"bogus", [error |-> ErrJob]>>}

StoreNext ==
    \/ StoreTick
    \/ StoreCreateJob
    \/ \E id \in StoreIds, c \in StatusCalls : StoreUpdateStatus(id, c[1], c[2])
    \/ \E id \in StoreIds : StoreDeleteJob(id)
    \/ \E age \in 0..MaxHour : StoreCleanupOldJobs(age)

\* -------------------------------------------------------- cleanup sweeper
\* _cleanup_loop(job_store), started once by lifespan: every hour
\* (CLEANUP_INTERVAL_SECONDS = 3600) it lists the rows older than 12 hours,
\* removes their files, and sweeps the store with the same threshold.
MaxAgeHours == 12

\* The task: where it is suspended (pc: in asyncio.sleep, in
\* get_old_job_paths, in cleanup_old_jobs, or ended), old_jobs, and
\* (history) the rows whose upload file it has removed, whether an iteration
\* has raised, and how the last iteration ended.
SweeperStart ==
    [pc |-> "sleep", old |-> {}, gone |-> {}, faulted |-> FALSE, last |-> "none"]

\* The rows "created_at < cutoff" selects at clock reading t. The clock of
\* the model starts at 0: before 12 hours have passed no row is that old.
AgedRows(js, t) ==
    IF t.h < MaxAgeHours THEN {} ELSE OldJobs(js, HoursBefore(t, MaxAgeHours))

\* Mutant of LoopOn: a loop without "except Exception".
LoopDies(s) ==
    [s EXCEPT !.pc = "ended", !.old = {}, !.faulted = TRUE, !.last = "raised"]

\* except Exception: logger.exception(...), and the next "while True".
LoopOn(s) ==
    [s EXCEPT !.pc = "sleep", !.old = {}, !.faulted = TRUE, !.last = "raised"]

SweepInit == sw = SweeperStart

\* asyncio.sleep(CLEANUP_INTERVAL_SECONDS) is over: an hour has passed; the
\* task calls get_old_job_paths.
SweepSleep ==
    /\ sw.pc = "sleep"
    /\ now.h < MaxSweepHour
    /\ now' = [now EXCEPT !.h = @ + 1]
    /\ sw' = [sw EXCEPT !.pc = "list"]
    /\ UNCHANGED <<rows, ret, born>>
    /\ UNCHANGED <<workerVars, pubVars, feedback, cu>>

\* get_old_job_paths(12) raises.
SweepListFails ==
    /\ sw.pc = "list"
    /\ sw' = LoopOn(sw)
    /\ UNCHANGED storeVars
    /\ UNCHANGED <<workerVars, pubVars, feedback, cu>>

\* get_old_job_paths(12) returns old_jobs; for each of them in turn
\* cleanup_job_files removes the upload file (and the guest directory, if
\* any); then the task calls cleanup_old_jobs.
SweepFiles ==
    /\ sw.pc = "list"
    /\ LET old == AgedRows(rows, now)
       IN sw' = [sw EXCEPT !.pc = "sweep", !.old = old, !.gone = @ \cup old]
    /\ UNCHANGED storeVars
    /\ UNCHANGED <<workerVars, pubVars, feedback, cu>>

\* The same, but removing the files of job f raises (an OSError of unlink):
\* the files of the jobs listed before it are gone.
SweepFilesFails(f) ==
    /\ sw.pc = "list"
    /\ LET old == AgedRows(rows, now)
       IN /\ f \in old
          /\ sw' = [LoopOn(sw) EXCEPT !.gone = @ \cup {j \in old : j < f}]
    /\ UNCHANGED storeVars
    /\ UNCHANGED <<workerVars, pubVars, feedback, cu>>

\* cleanup_old_jobs(12) returns the count (ok), or raises before its DELETE
\* is committed.
SweepStore(ok) ==
    /\ sw.pc = "sweep"
    /\ LET old == AgedRows(rows, now)
       IN IF ok
          THEN /\ rows' = [j \in DOMAIN rows \ old |-> rows[j]]
               /\ ret' = Ret(FALSE, FALSE, Cardinality(old))
               /\ born' = Forget(born, old)
               /\ sw' = [sw EXCEPT !.pc = "sleep", !.old = {}, !.last = "swept"]
          ELSE /\ sw' = LoopOn(sw)
               /\ UNCHANGED <<rows, ret, born>>
    /\ UNCHANGED now
    /\ UNCHANGED <<workerVars, pubVars, feedback, cu>>

\* lifespan shutdown: cleanup_task.cancel(); the CancelledError lands at the
\* await the task is suspended at, and "except asyncio.CancelledError: break".
SweepCancel ==
    /\ sw.pc # "ended"
    /\ sw' = [sw EXCEPT !.pc = "ended", !.old = {}, !.last = "cancelled"]
    /\ UNCHANGED storeVars
    /\ UNCHANGED <<workerVars, pubVars, feedback, cu>>

\* The sweeper and the requests that create rows.
SweepNext ==
    \/ StoreCreateJob
    \/ SweepSleep
    \/ SweepListFails
    \/ SweepFiles
    \/ \E f \in StoreIds : SweepFilesFails(f)
    \/ \E ok \in BOOLEAN : SweepStore(ok)
    \/ SweepCancel

\* One iteration with its awaits apart. Time passes between the two cutoffs
\* (get_old_job_paths and cleanup_old_jobs each read the clock), here within
\* the hour.
SweepClock ==
    /\ sw.pc \in {"list", "sweep"}
    /\ \E us \in Micros : now.us < us /\ now' = [now EXCEPT !.us = us]
    /\ UNCHANGED <<rows, ret, born, sw>>
    /\ UNCHANGED <<workerVars, pubVars, feedback, cu>>

\* cleanup_old_jobs(12) up to "old_jobs = await cursor.fetchall()" and
\* "if not old_jobs: return 0"; with old jobs the call is suspended at the
\* await of its DELETE.
CleanupSelect ==
    /\ sw.pc = "sweep"
    /\ ~cu.busy
    /\ LET old == AgedRows(rows, now)
       IN IF old = {}
          THEN /\ ret' = Ret(FALSE, FALSE, 0)
               /\ sw' = [sw EXCEPT !.pc = "sleep", !.old = {}, !.last = "swept"]
               /\ UNCHANGED cu
          ELSE /\ cu' = [cu EXCEPT !.old = old, !.busy = TRUE]
               /\ UNCHANGED <<ret, sw>>
    /\ UNCHANGED <<rows, now, born>>
    /\ UNCHANGED <<workerVars, pubVars, feedback>>

\* cleanup_old_jobs: DELETE FROM jobs WHERE id IN (the ids selected), the
\* commit, and "return len(old_jobs)"; back in the loop, the next sleep.
CleanupDelete ==
    /\ cu.busy
    /\ rows' = [j \in DOMAIN rows \ cu.old |-> rows[j]]
    /\ ret' = Ret(FALSE, FALSE, Cardinality(cu.old))
    /\ born' = Forget(born, cu.old)
    /\ cu' = [cu EXCEPT !.old = {}, !.busy = FALSE,
                         !.swept = @ + Cardinality(cu.old)]
    /\ sw' = [sw EXCEPT !.pc = "sleep", !.old = {}, !.last = "swept"]
    /\ UNCHANGED now
    /\ UNCHANGED <<workerVars, pubVars, feedback>>

\* DELETE /jobs/{id}, its last statement: await job_store.delete_job(id),
\* which reports whether it removed a row.
RequestDelete(id) ==
    /\ rows' = DeleteRow(rows, id)
    /\ ret' = Ret(FALSE, RowCount(rows, DeleteRow(rows, id)) > 0, 0)
    /\ born' = Forget(born, {id})
    /\ cu' = [cu EXCEPT !.deleted = @ + RowCount(rows, DeleteRow(rows, id))]
    /\ UNCHANGED now
    /\ UNCHANGED <<workerVars, pubVars, sw, feedback>>

\* The sweeper with the awaits of an iteration apart, the requests that
\* create rows and the requests that delete them.
RaceNext ==
    \/ StoreCreateJob
    \/ SweepSleep
    \/ SweepFiles
    \/ SweepClock
    \/ CleanupSelect
    \/ CleanupDelete
    \/ \E id \in StoreIds : RequestDelete(id)

\* ------------------------------------------------------- result publisher
_UPLOAD_CONCURRENCY == 8
_UPLOAD_MAX_RETRIES == 3
_UPLOAD_RETRY_BACKOFF == 1

BUCKET_NAME == "scans"

\* The arguments of one _handle_user_result call.
PubUser == "user-1"
PubJob == "job-1"
SupabaseUrl == "https://project.supabase.co"

\* A component of the result JSON: its id (the pipeline numbers them from 0)
\* and whether it carries a base64 payload.
Comp(i, b64) == [id |-> i - 1, base64 |-> b64]

\* A result bundle: k components with a payload, and possibly one more
\* whose "base64" is empty.
Bundle(k, bare) ==
    [i \in 1..(k + IF bare THEN 1 ELSE 0) |-> Comp(i, i <= k)]

\* "if not b64_data: continue": the components that are uploaded.
Artifacts(cs) == SelectSeq(cs, LAMBDA c : c.base64)

\* Mutant of ObjectPath: the storage prefix alone.
ObjectPathPrefix(user, job, cid) == user \o "/" \o job

\* object_path = f"{storage_prefix}/{comp_id}.png", the prefix being
\* f"{user_id}/{job_id}".
ObjectPath(user, job, cid) == user \o "/" \o job \o "/" \o ToString(cid) \o ".png"

\* public_url of an object path.
PublicUrl(path) ==
    SupabaseUrl \o "/storage/v1/object/public/" \o BUCKET_NAME \o "/" \o path

\* meta: one record per uploaded component, "url" in place of "base64".
MetaOf(cs) ==
    [i \in 1..Len(Artifacts(cs)) |->
        [id |-> Artifacts(cs)[i].id,
         url |-> PublicUrl(ObjectPath(PubUser, PubJob, Artifacts(cs)[i].id))]]

\* Mutant of Granted: a semaphore that never locks.
GrantedAll(n) == n

\* Of n _upload tasks entering "async with sem" in turn on a fresh
\* Semaphore(_UPLOAD_CONCURRENCY), the number that get a permit at once.
Granted(n) == IF n <= _UPLOAD_CONCURRENCY THEN n ELSE _UPLOAD_CONCURRENCY

\* Mutant of LastAttempt: one attempt more.
LastAttemptLate(attempt) == attempt = _UPLOAD_MAX_RETRIES

\* "if attempt == _UPLOAD_MAX_RETRIES - 1: raise"
LastAttempt(attempt) == attempt = _UPLOAD_MAX_RETRIES - 1

\* Mutant of Wait: the same wait before every retry.
WaitFlat(attempt) == _UPLOAD_RETRY_BACKOFF

\* wait = _UPLOAD_RETRY_BACKOFF * (2 ** attempt), in seconds.
Wait(attempt) == _UPLOAD_RETRY_BACKOFF * 2 ^ attempt

\* Mutant of AllDone: gather that waits for every task and swallows errors.
AllSettled(u) == \A i \in DOMAIN u : u[i].st \in {"done", "failed"}

\* await asyncio.gather(*tasks) returns: every task has returned.
AllDone(u) == \A i \in DOMAIN u : u[i].st = "done"

\* await asyncio.gather(*tasks) raises: the first exception of a task is
\* handed to the awaiter at once; the other tasks are not cancelled.
AnyFailed(u) == \E i \in DOMAIN u : u[i].st = "failed"

\* Mutant of ExceptBucket: a failure handler that empties the job's prefix.
ExceptBucketRollback(b) == {}

\* The worker's except branch (rmtree of the local output directory, the
\* "failed" write) as far as the bucket is concerned.
ExceptBucket(b) == b

\* A DELETE /jobs/{id} request for the published job: where it is (pc), the
\* paths its list call returned, and (history) whether the delete of the
\* catalog row was attempted.
NoDelete == [pc |-> "none", files |-> {}, tried |-> FALSE]

\* Mutant of StorageFault: no try/except around the list and remove calls.
StorageFaultRaised(d) == [d EXCEPT !.pc = "raised"]

\* except Exception: logger.exception(...): the function goes on to the
\* delete of the catalog row.
StorageFault(d) == [d EXCEPT !.pc = "row"]

PubInit ==
    /\ comps = <<>>
    /\ up = <<>>
    /\ sem = _UPLOAD_CONCURRENCY
    /\ bucket = {}
    /\ pub = "idle"
    /\ meta = <<>>
    /\ catalog = 0
    /\ pstatus = "processing"
    /\ del = NoDelete
    /\ slept = <<>>

\* ---------------------------------------------------------------- worker
\* A _process_loop task: its position, the locals job_id, result["total_pages"]
\* and e, and (history) how its last _process_job call ended.
IdleCons == [pc |-> "unborn", job |-> 0, total |-> 0, err |-> NULL, last |-> "none"]
NoThread == [st |-> "none", page |-> 0, total |-> 0]

InFlightPcs == {"lookup", "mark", "spawn", "pipeline", "complete", "failwrite"}
LivePcs == InFlightPcs \cup {"get"}

\* A _process_loop task that has been created and has not ended.
Live(t) == cons[t].pc \in LivePcs

Init ==
    /\ jobs = <<>>
    /\ issued = {}
    /\ queue = <<>>
    /\ task = 0
    /\ cons = [t \in TaskIds |-> IdleCons]
    /\ thread = [j \in JobIds |-> NoThread]
    /\ pending = <<>>
    /\ outdir = {}
    /\ guestdir = {}
    /\ enqOrder = <<>>
    /\ deqOrder = <<>>
    /\ procOrder = <<>>
    /\ termOrder = <<>>
    /\ abandoned = {}
    /\ StoreInit
    /\ PubInit
    /\ SweepInit

\* POST /extract, first half: job_store.create_job with a fresh uuid4.
CreateJob(id) ==
    /\ id \in JobIds \ issued
    /\ issued' = issued \cup {id}
    /\ jobs' = [j \in DOMAIN jobs \cup {id} |-> IF j = id THEN NewRow ELSE jobs[j]]
    /\ UNCHANGED otherVars
    /\ UNCHANGED <<queue, task, cons, thread, pending, outdir, guestdir,
                   enqOrder, deqOrder, procOrder, termOrder, abandoned>>

\* ExtractionWorker.enqueue: put on the unbounded queue. Its one caller,
\* POST /extract, passes the id create_job has just returned. Ids are
\* opaque (uuid4), so the model names the jobs by their enqueue rank: of two
\* concurrent requests, the one that enqueues first holds the smaller id.
Enqueue(id) ==
    /\ id \in issued
    /\ id = Len(enqOrder) + 1
    /\ queue' = Append(queue, id)
    /\ enqOrder' = Append(enqOrder, id)
    /\ UNCHANGED otherVars
    /\ UNCHANGED <<jobs, issued, task, cons, thread, pending, outdir, guestdir,
                   deqOrder, procOrder, termOrder, abandoned>>

\* ExtractionWorker.start: create a _process_loop task and keep it in _task.
Start ==
    /\ \E t \in TaskIds :
        /\ cons[t].pc = "unborn"
        /\ \A u \in TaskIds : u < t => cons[u].pc # "unborn"
        /\ cons' = [cons EXCEPT ![t].pc = "get"]
        /\ task' = t
    /\ UNCHANGED otherVars
    /\ UNCHANGED <<jobs, issued, queue, thread, pending, outdir, guestdir,
                   enqOrder, deqOrder, procOrder, termOrder, abandoned>>

\* ExtractionWorker.stop: cancel _task and wait for it; the CancelledError
\* lands at the await the consumer is suspended at and is not caught by
\* "except Exception". The pipeline thread is not touched.
Stop ==
    /\ task # 0
    /\ cons' = [cons EXCEPT ![task] = [IdleCons EXCEPT !.pc = "dead"]]
    /\ abandoned' = IF cons[task].pc \in InFlightPcs
                    THEN abandoned \cup {cons[task].job} ELSE abandoned
    /\ task' = 0
    /\ UNCHANGED otherVars
    /\ UNCHANGED <<jobs, issued, queue, thread, pending, outdir, guestdir,
                   enqOrder, deqOrder, procOrder, termOrder>>

\* Mutant of Dequeue: the consumer reads the head and leaves it in the queue.
DequeuePeek(t) ==
    /\ cons[t].pc = "get"
    /\ queue # <<>>
    /\ cons' = [cons EXCEPT ![t].pc = "lookup", ![t].job = Head(queue)]
    /\ deqOrder' = Append(deqOrder, Head(queue))
    /\ UNCHANGED otherVars
    /\ UNCHANGED <<jobs, issued, queue, task, thread, pending, outdir, guestdir,
                   enqOrder, procOrder, termOrder, abandoned>>

\* _process_loop: job_id = await self._queue.get()
Dequeue(t) ==
    /\ cons[t].pc = "get"
    /\ queue # <<>>
    /\ cons' = [cons EXCEPT ![t].pc = "lookup", ![t].job = Head(queue)]
    /\ queue' = Tail(queue)
    /\ deqOrder' = Append(deqOrder, Head(queue))
    /\ UNCHANGED otherVars
    /\ UNCHANGED <<jobs, issued, task, thread, pending, outdir, guestdir,
                   enqOrder, procOrder, termOrder, abandoned>>

\* Mutant of BackToLoop: a loop without the try/except around _process_job.
BackToLoopNoCatch(c, how) ==
    IF how = "raised" THEN [IdleCons EXCEPT !.pc = "dead", !.last = how]
    ELSE [IdleCons EXCEPT !.pc = "get", !.last = how]

\* _process_loop: "except Exception" around _process_job logs and goes on to
\* the next queue.get(); a normal return does the same.
BackToLoop(c, how) == [IdleCons EXCEPT !.pc = "get", !.last = how]

\* Mutant of Lookup: no "if job is None: return".
LookupNoNoneCheck(t, storeFault) ==
    /\ cons[t].pc = "lookup"
    /\ cons' = [cons EXCEPT ![t] =
                  IF storeFault THEN [IdleCons EXCEPT !.pc = "get", !.last = "raised"]
                  ELSE [@ EXCEPT !.pc = "mark"]]
    /\ UNCHANGED otherVars
    /\ UNCHANGED <<jobs, issued, queue, task, thread, pending, outdir, guestdir,
                   enqOrder, deqOrder, procOrder, termOrder, abandoned>>

\* _process_job: job = await get_job(job_id); if job is None: return.
\* storeFault: the store raises instead of answering.
Lookup(t, storeFault) ==
    /\ cons[t].pc = "lookup"
    /\ cons' = [cons EXCEPT ![t] =
                  IF storeFault THEN BackToLoop(@, "raised")
                  ELSE IF GetJobIsNone(jobs, @.job) THEN BackToLoop(@, "skipped")
                  ELSE [@ EXCEPT !.pc = "mark"]]
    /\ UNCHANGED otherVars
    /\ UNCHANGED <<jobs, issued, queue, task, thread, pending, outdir, guestdir,
                   enqOrder, deqOrder, procOrder, termOrder, abandoned>>

\* _process_job: await update_status(job_id, "processing"), outside the try.
MarkProcessing(t, storeFault) ==
    /\ cons[t].pc = "mark"
    /\ LET j == cons[t].job
           raises == storeFault \/ UpdateStatusRaises("processing", <<>>)
       IN /\ jobs' = IF raises THEN jobs
                     ELSE UpdateStatus(jobs, j, "processing", <<>>)
          /\ cons' = [cons EXCEPT ![t] =
                        IF raises THEN BackToLoop(@, "raised")
                        ELSE [@ EXCEPT !.pc = "spawn"]]
          /\ procOrder' = IF ~raises /\ j \in DOMAIN jobs
                          THEN Append(procOrder, j) ELSE procOrder
    /\ UNCHANGED otherVars
    /\ UNCHANGED <<issued, queue, task, thread, pending, outdir, guestdir,
                   enqOrder, deqOrder, termOrder, abandoned>>

\* _process_job: output_dir.mkdir(...); await asyncio.to_thread(run_pipeline, ...)
SpawnPipeline(t) ==
    /\ cons[t].pc = "spawn"
    /\ outdir' = outdir \cup {cons[t].job}
    /\ thread' = [thread EXCEPT ![cons[t].job] = [NoThread EXCEPT !.st = "convert"]]
    /\ cons' = [cons EXCEPT ![t].pc = "pipeline"]
    /\ UNCHANGED otherVars
    /\ UNCHANGED <<jobs, issued, queue, task, pending, guestdir,
                   enqOrder, deqOrder, procOrder, termOrder, abandoned>>

\* run_pipeline, in its thread: pages = convert_file(...), n pages, or a
\* ConversionError / FileNotFoundError.
ThreadConvert(j, n, raises) ==
    /\ thread[j].st = "convert"
    /\ thread' = [thread EXCEPT ![j] =
                    IF raises THEN [NoThread EXCEPT !.st = "raised"]
                    ELSE [@ EXCEPT !.st = "pages", !.total = n]]
    /\ outdir' = outdir \cup {j}
    /\ UNCHANGED otherVars
    /\ UNCHANGED <<jobs, issued, queue, task, cons, pending, guestdir,
                   enqOrder, deqOrder, procOrder, termOrder, abandoned>>

\* run_pipeline: one iteration of the page loop, ending in
\* progress_callback(page_number, len(pages)), which hands an
\* update_progress coroutine to the loop (run_coroutine_threadsafe); after
\* the last page, assemble_output, write_json and return.
ThreadPage(j, raises) ==
    /\ thread[j].st = "pages"
    /\ thread[j].page < thread[j].total
    /\ thread' = [thread EXCEPT ![j] =
                    IF raises THEN [NoThread EXCEPT !.st = "raised"]
                    ELSE IF @.page + 1 = @.total
                         THEN [@ EXCEPT !.page = @ + 1, !.st = "returned"]
                         ELSE [@ EXCEPT !.page = @ + 1]]
    /\ pending' = IF raises THEN pending
                  ELSE Append(pending, <<j, thread[j].page + 1, thread[j].total>>)
    /\ UNCHANGED otherVars
    /\ UNCHANGED <<jobs, issued, queue, task, cons, outdir, guestdir,
                   enqOrder, deqOrder, procOrder, termOrder, abandoned>>

\* Mutant of ApplyProgress: the loop runs the newest coroutine first.
ApplyProgressNewest ==
    /\ pending # <<>>
    /\ LET p == pending[Len(pending)]
       IN jobs' = UpdateProgress(jobs, p[1], p[2], p[3])
    /\ pending' = SubSeq(pending, 1, Len(pending) - 1)
    /\ UNCHANGED otherVars
    /\ UNCHANGED <<issued, queue, task, cons, thread, outdir, guestdir,
                   enqOrder, deqOrder, procOrder, termOrder, abandoned>>

\* The event loop runs the oldest update_progress coroutine handed to it.
ApplyProgress ==
    /\ pending # <<>>
    /\ jobs' = UpdateProgress(jobs, Head(pending)[1], Head(pending)[2], Head(pending)[3])
    /\ pending' = Tail(pending)
    /\ UNCHANGED otherVars
    /\ UNCHANGED <<issued, queue, task, cons, thread, outdir, guestdir,
                   enqOrder, deqOrder, procOrder, termOrder, abandoned>>

\* Mutant of Submitted: the terminal write does not wait for the loop.
SubmittedAlways(j) == TRUE

\* The callbacks of the loop run in the order they were handed over: the
\* progress coroutines of job j were handed over before the completion of its
\* to_thread future, so they reach the store before the consumer's next write.
Submitted(j) == \A i \in DOMAIN pending : pending[i][1] # j

\* job.get("user_id"): the row has no such column, so the value is None and
\* "if user_id and self._supabase" takes the guest branch.
UserIdOf(j) == IF "user_id" \in JobsColumns THEN "user" ELSE NULL

\* except Exception as e: the consumer goes on to
\* await update_status(job_id, "failed", error=str(e)) ...
ExceptBranch(c, e) == [c EXCEPT !.pc = "failwrite", !.err = e]

\* Mutant of Rmtree: the except branch without the rmtree.
RmtreeSkipped(dirs, j) == dirs

\* ... after shutil.rmtree(output_dir, ignore_errors=True).
Rmtree(dirs, j) == dirs \ {j}

\* _process_job resumes from to_thread: the pipeline raised (except branch),
\* or it returned and _handle_guest_result copies the PNGs (guestFails: the
\* copy raises after guest_dir.mkdir).
PipelineDone(t, guestFails) ==
    /\ cons[t].pc = "pipeline"
    /\ LET j == cons[t].job
       IN /\ thread[j].st \in {"returned", "raised"}
          /\ IF thread[j].st = "raised"
             THEN /\ cons' = [cons EXCEPT ![t] =
                                ExceptBranch(@, ErrJob)]
                  /\ outdir' = Rmtree(outdir, j)
                  /\ UNCHANGED guestdir
             ELSE /\ UserIdOf(j) = NULL
                  /\ guestdir' = guestdir \cup {j}
                  /\ IF guestFails
                     THEN /\ cons' = [cons EXCEPT ![t] = ExceptBranch(@, ErrJob)]
                          /\ outdir' = Rmtree(outdir, j)
                     ELSE /\ cons' = [cons EXCEPT ![t].pc = "complete",
                                                  ![t].total = thread[j].total]
                          /\ UNCHANGED outdir
          /\ thread' = [thread EXCEPT ![j] = [NoThread EXCEPT !.st = "joined"]]
    /\ UNCHANGED otherVars
    /\ UNCHANGED <<jobs, issued, queue, task, pending,
                   enqOrder, deqOrder, procOrder, termOrder, abandoned>>

\* The keyword arguments of the "completed" write.
CompletedFields(j, total) ==
    [result_path |-> ResultPath(j), current_page |-> total,
     total_pages |-> total, total_components |-> total]

\* _process_job: await update_status(job_id, "completed", result_path=...,
\* current_page=..., total_pages=..., total_components=...), inside the try.
Complete(t) ==
    /\ cons[t].pc = "complete"
    /\ LET j == cons[t].job
           kw == CompletedFields(j, cons[t].total)
           raises == UpdateStatusRaises("completed", kw)
       IN /\ Submitted(j)
          /\ jobs' = IF raises THEN jobs ELSE UpdateStatus(jobs, j, "completed", kw)
          /\ cons' = [cons EXCEPT ![t] =
                        IF raises
                        THEN ExceptBranch(@, ErrColumn)
                        ELSE BackToLoop(@, "returned")]
          /\ outdir' = IF raises THEN Rmtree(outdir, j) ELSE outdir
          /\ termOrder' = IF ~raises /\ j \in DOMAIN jobs
                          THEN Append(termOrder, j) ELSE termOrder
    /\ UNCHANGED otherVars
    /\ UNCHANGED <<issued, queue, task, thread, pending, guestdir,
                   enqOrder, deqOrder, procOrder, abandoned>>

\* _process_job, except branch: await update_status(job_id, "failed",
\* error=str(e)); an exception of this write leaves _process_job.
FailWrite(t, storeFault) ==
    /\ cons[t].pc = "failwrite"
    /\ LET j == cons[t].job
           kw == [error |-> cons[t].err]
           raises == storeFault \/ UpdateStatusRaises("failed", kw)
       IN /\ Submitted(j)
          /\ jobs' = IF raises THEN jobs ELSE UpdateStatus(jobs, j, "failed", kw)
          /\ cons' = [cons EXCEPT ![t] =
                        BackToLoop(@, IF raises THEN "raised" ELSE "returned")]
          /\ termOrder' = IF ~raises /\ j \in DOMAIN jobs
                          THEN Append(termOrder, j) ELSE termOrder
    /\ UNCHANGED otherVars
    /\ UNCHANGED <<issued, queue, task, thread, pending, outdir, guestdir,
                   enqOrder, deqOrder, procOrder, abandoned>>

\* DELETE /jobs/{id}: 404 if the row is absent; else cleanup_job_files on the
\* row's upload_path and result_path (a result file is unlinked and its
\* directory removed once empty), the guest directory, then delete_job.
DeleteJobRoute(id) ==
    /\ ~GetJobIsNone(jobs, id)
    /\ outdir' = IF jobs[id].result_path # NULL THEN outdir \ {id} ELSE outdir
    /\ guestdir' = IF UserIdOf(id) = NULL THEN guestdir \ {id} ELSE guestdir
    /\ jobs' = DeleteRow(jobs, id)
    /\ UNCHANGED otherVars
    /\ UNCHANGED <<issued, queue, task, cons, thread, pending,
                   enqOrder, deqOrder, procOrder, termOrder, abandoned>>

\* _cleanup_loop next to the worker, first half of an iteration: the sleep
\* is over, get_old_job_paths returns the rows older than 12 hours (S: the
\* age of a row is independent of what the worker does with it), and
\* cleanup_job_files and the rmtree of the guest directory run for each.
ReclaimFiles(S) ==
    /\ sw.pc = "sleep"
    /\ S \subseteq DOMAIN jobs
    /\ outdir' = outdir \ {j \in S : jobs[j].result_path # NULL}
    /\ guestdir' = guestdir \ S
    /\ sw' = [sw EXCEPT !.pc = "sweep", !.old = S, !.gone = @ \cup S]
    /\ UNCHANGED <<storeVars, pubVars, feedback, cu>>
    /\ UNCHANGED <<jobs, issued, queue, task, cons, thread, pending,
                   enqOrder, deqOrder, procOrder, termOrder, abandoned>>

\* Second half: cleanup_old_jobs deletes the rows older than 12 hours at
\* its own, later, cutoff (T: the rows listed that still exist, and possibly
\* more).
ReclaimRows(T) ==
    /\ sw.pc = "sweep"
    /\ T \subseteq DOMAIN jobs
    /\ sw.old \cap DOMAIN jobs \subseteq T
    /\ jobs' = [j \in DOMAIN jobs \ T |-> jobs[j]]
    /\ sw' = [sw EXCEPT !.pc = "sleep", !.old = {}, !.last = "swept"]
    /\ UNCHANGED <<storeVars, pubVars, feedback, cu>>
    /\ UNCHANGED <<issued, queue, task, cons, thread, pending, outdir, guestdir,
                   enqOrder, deqOrder, procOrder, termOrder, abandoned>>

\* ------------------------------------------------------------ result route
\* The "completed" write with the columns the jobs table has.
CompletedRow(id) ==
    [f \in DOMAIN CompletedFields(id, 1) \cap JobsColumns |->
        CompletedFields(id, 1)[f]]

\* GET /jobs/{id}/result (exists: the result file is on disk). It answers
\* 404 without a row, 409 unless the row is completed, 404 without the
\* file; then it reads job["user_id"], a key dict(row) has only if the table
\* has the column (KeyError: 500 otherwise), and returns the result. No
\* branch writes to the store. ret.n is the HTTP status.
GetJobResult(id, exists) ==
    /\ LET code ==
            IF GetJobIsNone(rows, id) THEN 404
            ELSE IF rows[id].status # "completed" THEN 409
            ELSE IF rows[id].result_path = NULL \/ ~exists THEN 404
            ELSE IF "user_id" \notin DOMAIN rows[id] THEN 500
            ELSE 200
       IN ret' = Ret(code # 200, FALSE, code)
    /\ UNCHANGED <<rows, now, born>>
    /\ UNCHANGED <<workerVars, pubVars, sw, feedback, cu>>

\* The store driven directly, with the writes that take a row to
\* processing and to completed, and the result route.
ResultNext ==
    \/ StoreTick
    \/ StoreCreateJob
    \/ \E id \in StoreIds : StoreUpdateStatus(id, "processing", <<>>)
    \/ \E id \in StoreIds : StoreUpdateStatus(id, "completed", CompletedRow(id))
    \/ \E id \in StoreIds, exists \in BOOLEAN : GetJobResult(id, exists)

\* The update_progress calls: the counters of a page loop, a reset to 0/0,
\* and a pair no page loop emits (the store validates nothing).
ProgressCalls == {<<0, 0>>, <<1, 2>>, <<2, 2>>, <<2, 1>>}

\* The update_status calls of the worker: "processing" (bare) and
\* "completed" with the fields the table has.
WorkerStatusCalls(id) == {<<"processing", <<>>>>, <<"completed", CompletedRow(id)>>}

\* The store under the calls of the worker (update_status, update_progress),
\* of the sweeper (cleanup_old_jobs) and of the requests (create_job,
\* delete_job).
FrameNext ==
    \/ StoreTick
    \/ StoreCreateJob
    \/ \E id \in StoreIds : \E c \in WorkerStatusCalls(id) :
            StoreUpdateStatus(id, c[1], c[2])
    \/ \E id \in StoreIds, p \in ProgressCalls : StoreUpdateProgress(id, p[1], p[2])
    \/ \E id \in StoreIds : StoreDeleteJob(id)
    \/ \E age \in 0..MaxHour : StoreCleanupOldJobs(age)

\* ------------------------------------------------ result publisher, steps
\* _handle_user_result reads the result JSON (cs), then
\* upload_components_to_supabase up to "await asyncio.gather(*tasks)": the
\* loop builds meta and creates one _upload task per component with a
\* payload; the tasks then run in creation order up to their first await,
\* so the first _UPLOAD_CONCURRENCY of them hold a permit and are uploading
\* and the others wait on the semaphore.
PubLaunch(cs) ==
    /\ pub = "idle"
    /\ comps' = cs
    /\ LET n == Len(Artifacts(cs))
       IN /\ up' = [i \in 1..n |->
                      [st |-> IF i <= Granted(n) THEN "uploading" ELSE "waiting",
                       attempt |-> 0]]
          /\ sem' = _UPLOAD_CONCURRENCY - Granted(n)
          /\ slept' = [i \in 1..n |-> <<>>]
    /\ meta' = MetaOf(cs)
    /\ pub' = "gather"
    /\ UNCHANGED <<bucket, catalog, pstatus>>
    /\ UNCHANGED <<workerVars, storeVars, del, sw, feedback, cu>>

\* Mutant of UploadAttempt: the retry loop around "async with sem", so that
\* the permit is given back before asyncio.sleep(wait).
UploadAttemptSleepOutside(i, ok) ==
    /\ i \in DOMAIN up
    /\ up[i].st = "uploading"
    /\ ok \/ i <= MaxFaulty
    /\ LET path == ObjectPath(PubUser, PubJob, Artifacts(comps)[i].id)
       IN bucket' = IF ok THEN bucket \cup {path} ELSE bucket
    /\ up' = [up EXCEPT ![i].st =
                IF ok THEN "done"
                ELSE IF LastAttempt(up[i].attempt) THEN "failed" ELSE "backoff"]
    /\ sem' = sem + 1
    /\ slept' = IF ok \/ LastAttempt(up[i].attempt) THEN slept
                ELSE [slept EXCEPT ![i] = Append(@, Wait(up[i].attempt))]
    /\ UNCHANGED <<comps, pub, meta, catalog, pstatus>>
    /\ UNCHANGED <<workerVars, storeVars, del, sw, feedback, cu>>

\* _upload: the attempt in the executor ends. ok: the object is stored,
\* "return" leaves "async with sem". Otherwise the exception is re-raised
\* on the last attempt (leaving "async with sem") and is followed by
\* asyncio.sleep(wait), the permit still held, on the earlier ones.
UploadAttempt(i, ok) ==
    /\ i \in DOMAIN up
    /\ up[i].st = "uploading"
    /\ ok \/ i <= MaxFaulty
    /\ LET path == ObjectPath(PubUser, PubJob, Artifacts(comps)[i].id)
       IN bucket' = IF ok THEN bucket \cup {path} ELSE bucket
    /\ up' = [up EXCEPT ![i].st =
                IF ok THEN "done"
                ELSE IF LastAttempt(up[i].attempt) THEN "failed" ELSE "backoff"]
    /\ sem' = IF ok \/ LastAttempt(up[i].attempt) THEN sem + 1 ELSE sem
    /\ slept' = IF ok \/ LastAttempt(up[i].attempt) THEN slept
                ELSE [slept EXCEPT ![i] = Append(@, Wait(up[i].attempt))]
    /\ UNCHANGED <<comps, pub, meta, catalog, pstatus>>
    /\ UNCHANGED <<workerVars, storeVars, del, sw, feedback, cu>>

\* _upload: asyncio.sleep(wait) is over, the next iteration of the loop.
UploadRetry(i) ==
    /\ i \in DOMAIN up
    /\ up[i].st = "backoff"
    /\ up' = [up EXCEPT ![i].st = "uploading", ![i].attempt = @ + 1]
    /\ UNCHANGED <<comps, sem, bucket, pub, meta, catalog, pstatus>>
    /\ UNCHANGED <<workerVars, storeVars, del, sw, slept, feedback, cu>>

\* _upload: the longest-waiting task gets the permit a release freed.
SemAcquire(i) ==
    /\ i \in DOMAIN up
    /\ up[i].st = "waiting"
    /\ \A j \in DOMAIN up : j < i => up[j].st # "waiting"
    /\ sem > 0
    /\ sem' = sem - 1
    /\ up' = [up EXCEPT ![i].st = "uploading"]
    /\ UNCHANGED <<comps, bucket, pub, meta, catalog, pstatus>>
    /\ UNCHANGED <<workerVars, storeVars, del, sw, slept, feedback, cu>>

\* upload_components_to_supabase returns meta: gather has returned.
GatherReturns ==
    /\ pub = "gather"
    /\ AllDone(up)
    /\ pub' = "uploaded"
    /\ UNCHANGED <<comps, up, sem, bucket, meta, catalog, pstatus>>
    /\ UNCHANGED <<workerVars, storeVars, del, sw, slept, feedback, cu>>

\* upload_components_to_supabase raises: gather has raised.
GatherRaises ==
    /\ pub = "gather"
    /\ AnyFailed(up)
    /\ pub' = "upfailed"
    /\ UNCHANGED <<comps, up, sem, bucket, meta, catalog, pstatus>>
    /\ UNCHANGED <<workerVars, storeVars, del, sw, slept, feedback, cu>>

\* _handle_user_result: save_job_to_supabase inserts the catalog row (ok),
\* or the insert raises.
SaveJob(ok) ==
    /\ pub = "uploaded"
    /\ catalog' = IF ok THEN catalog + 1 ELSE catalog
    /\ pub' = IF ok THEN "saved" ELSE "savefailed"
    /\ UNCHANGED <<comps, up, sem, bucket, meta, pstatus>>
    /\ UNCHANGED <<workerVars, storeVars, del, sw, slept, feedback, cu>>

\* _process_job after _handle_user_result: the "completed" write, or the
\* except branch and its "failed" write.
PubWorkerEnd ==
    /\ pub \in {"saved", "upfailed", "savefailed"}
    /\ LET total == Len(Artifacts(comps))
           raises == \/ pub # "saved"
                     \/ UpdateStatusRaises("completed", CompletedFields(1, total))
       IN /\ pstatus' = IF raises THEN "failed" ELSE "completed"
          /\ bucket' = IF raises THEN ExceptBucket(bucket) ELSE bucket
    /\ pub' = "ended"
    /\ UNCHANGED <<comps, up, sem, meta, catalog>>
    /\ UNCHANGED <<workerVars, storeVars, del, sw, slept, feedback, cu>>

\* DELETE /jobs/{id} for the job, once its worker is done with it: get_job
\* finds the row; delete_job_from_supabase lists the objects under
\* "{user_id}/{job_id}" (ok), or the list call raises.
DeleteList(ok) ==
    /\ pub = "ended"
    /\ del.pc = "none"
    /\ del' = IF ~ok THEN StorageFault(del)
              ELSE IF bucket = {} THEN [del EXCEPT !.pc = "row"]
              ELSE [del EXCEPT !.pc = "remove", !.files = bucket]
    /\ UNCHANGED <<comps, up, sem, bucket, pub, meta, catalog, pstatus>>
    /\ UNCHANGED <<workerVars, storeVars, sw, slept, feedback, cu>>

\* delete_job_from_supabase: remove(paths) of the listed objects (ok), or
\* the call raises.
DeleteRemove(ok) ==
    /\ del.pc = "remove"
    /\ bucket' = IF ok THEN bucket \ del.files ELSE bucket
    /\ del' = IF ok THEN [del EXCEPT !.pc = "row"] ELSE StorageFault(del)
    /\ UNCHANGED <<comps, up, sem, pub, meta, catalog, pstatus>>
    /\ UNCHANGED <<workerVars, storeVars, sw, slept, feedback, cu>>

\* delete_job_from_supabase: the delete of the catalog row (ok), or the call
\* raises and is logged; the function returns.
DeleteCatalogRow(ok) ==
    /\ del.pc = "row"
    /\ catalog' = IF ok THEN 0 ELSE catalog
    /\ del' = [del EXCEPT !.pc = "returned", !.tried = TRUE]
    /\ UNCHANGED <<comps, up, sem, bucket, pub, meta, pstatus>>
    /\ UNCHANGED <<workerVars, storeVars, sw, slept, feedback, cu>>

\* routes.delete_job after delete_job_from_supabase: job_store.delete_job.
DeleteLocalRow ==
    /\ del.pc = "returned"
    /\ pstatus' = "deleted"
    /\ del' = [del EXCEPT !.pc = "done"]
    /\ UNCHANGED <<comps, up, sem, bucket, pub, meta, catalog>>
    /\ UNCHANGED <<workerVars, storeVars, sw, slept, feedback, cu>>

PubNext ==
    \/ \E k \in 0..MaxArtifacts, bare \in BOOLEAN : PubLaunch(Bundle(k, bare))
    \/ \E i \in 1..MaxArtifacts, ok \in BOOLEAN : UploadAttempt(i, ok)
    \/ \E i \in 1..MaxArtifacts : UploadRetry(i)
    \/ \E i \in 1..MaxArtifacts : SemAcquire(i)
    \/ GatherReturns
    \/ GatherRaises
    \/ \E ok \in BOOLEAN : SaveJob(ok)
    \/ PubWorkerEnd

\* A publish call followed by the DELETE request for its job.
DeleteNext ==
    \/ PubNext
    \/ \E ok \in BOOLEAN : DeleteList(ok)
    \/ \E ok \in BOOLEAN : DeleteRemove(ok)
    \/ \E ok \in BOOLEAN : DeleteCatalogRow(ok)
    \/ DeleteLocalRow

Next ==
    \/ \E id \in JobIds : CreateJob(id)
    \/ \E id \in JobIds : Enqueue(id)
    \/ Start
    \/ Stop
    \/ \E t \in TaskIds : Dequeue(t)
    \/ \E t \in TaskIds, f \in BOOLEAN : Lookup(t, f)
    \/ \E t \in TaskIds, f \in BOOLEAN : MarkProcessing(t, f)
    \/ \E t \in TaskIds : SpawnPipeline(t)
    \/ \E j \in JobIds, n \in 1..MaxPages, r \in BOOLEAN : ThreadConvert(j, n, r)
    \/ \E j \in JobIds, r \in BOOLEAN : ThreadPage(j, r)
    \/ ApplyProgress
    \/ \E t \in TaskIds, g \in BOOLEAN : PipelineDone(t, g)
    \/ \E t \in TaskIds : Complete(t)
    \/ \E t \in TaskIds, f \in BOOLEAN : FailWrite(t, f)
    \/ \E id \in JobIds : DeleteJobRoute(id)

\* The steps the event loop and the pipeline thread take on their own: the
\* consumers' (every await of _process_loop and _process_job returns or
\* raises), the pipeline's (every call ends), and the loop's callbacks.
WorkerStep ==
    \/ \E t \in TaskIds : Dequeue(t)
    \/ \E t \in TaskIds, f \in BOOLEAN : Lookup(t, f)
    \/ \E t \in TaskIds, f \in BOOLEAN : MarkProcessing(t, f)
    \/ \E t \in TaskIds : SpawnPipeline(t)
    \/ \E j \in JobIds, n \in 1..MaxPages, r \in BOOLEAN : ThreadConvert(j, n, r)
    \/ \E j \in JobIds, r \in BOOLEAN : ThreadPage(j, r)
    \/ ApplyProgress
    \/ \E t \in TaskIds, g \in BOOLEAN : PipelineDone(t, g)
    \/ \E t \in TaskIds : Complete(t)
    \/ \E t \in TaskIds, f \in BOOLEAN : FailWrite(t, f)

\* A worker that is never stopped, and rows that are never deleted.
LiveNext ==
    \/ \E id \in JobIds : CreateJob(id)
    \/ \E id \in JobIds : Enqueue(id)
    \/ Start
    \/ WorkerStep

Spec == Init /\ [][Next]_vars

\* The worker, the requests and the cleanup loop.
ReclaimNext ==
    \/ Next
    \/ \E S \in SUBSET JobIds : ReclaimFiles(S)
    \/ \E T \in SUBSET JobIds : ReclaimRows(T)

ReclaimSpec == Init /\ [][ReclaimNext]_vars

\* The same worker, never stopped, its rows never deleted; asyncio runs every
\* task that is ready and the thread pool runs the pipeline to its end.
LiveSpec == Init /\ [][LiveNext]_vars /\ WF_vars(WorkerStep)

\* The job store driven directly by its callers.
StoreSpec == Init /\ [][StoreNext]_vars

\* One _handle_user_result call and the end of its _process_job.
PubSpec == Init /\ [][PubNext]_vars

\* The same, followed by the DELETE request for the job.
DeleteSpec == Init /\ [][DeleteNext]_vars

\* The cleanup loop and the requests that create rows.
SweepSpec == Init /\ [][SweepNext]_vars

\* The result route on rows the store was asked to mark completed.
ResultSpec == Init /\ [][ResultNext]_vars

\* The store under the calls of the worker, the sweeper and the requests.
FrameSpec == Init /\ [][FrameNext]_vars

\* The store under feedback requests, delete requests and sweeps.
FeedbackSpec == Init /\ [][FeedbackNext]_vars

\* The cleanup loop, await by await, next to create and delete requests.
RaceSpec == Init /\ [][RaceNext]_vars


\* ================================================================ claims

Processing == {j \in DOMAIN jobs : jobs[j].status = "processing"}

\* The step is one of consumer t's own (not its cancellation by stop()).
StepOf(t) == cons'[t] # cons[t] /\ cons'[t].pc # "dead"

Ordered(s) == \A i, k \in DOMAIN s : i < k => s[i] < s[k]

\* C1: single-flight: in every reachable state at most one job row has
\* status "processing".
C1_SingleFlight == Cardinality(Processing) <= 1

\* C2: FIFO order: the rows become "processing" in enqueue order and reach
\* their terminal status in enqueue order (jobs are named by enqueue rank).
C2_FifoOrder == Ordered(procOrder) /\ Ordered(termOrder)

\* The edges of the job state machine.
AllowedEdges ==
    {<<"queued", "processing">>, <<"processing", "completed">>,
     <<"processing", "failed">>, <<"completed", "delivered">>}

\* C3: job state machine: in every step, a row that exists before and after
\* either keeps its status or moves along one of the four edges
\* queued -> processing, processing -> completed, processing -> failed,
\* completed -> delivered; a new row starts queued.
C3_StateMachine ==
    [][/\ \A j \in DOMAIN jobs \cap DOMAIN jobs' :
            \/ jobs'[j].status = jobs[j].status
            \/ <<jobs[j].status, jobs'[j].status>> \in AllowedEdges
       /\ \A j \in DOMAIN jobs' \ DOMAIN jobs : jobs'[j].status = "queued"]_vars

\* C3 witness: the worker has driven a row over queued -> processing -> failed
\* while another row is still queued.
C3_Witness ==
    \E j, k \in DOMAIN jobs :
        /\ jobs[j].status = "failed"
        /\ j \in Range(procOrder) /\ j \in Range(termOrder)
        /\ jobs[k].status = "queued"

\* C4: success path: when the pipeline returned and the result routing raised
\* nothing, the step in which the consumer leaves the "completed" write
\* leaves the row completed, with result_path set and
\* current_page = total_pages = the pipeline's page count.
C4_SuccessPath ==
    [][\A t \in TaskIds :
        (/\ cons[t].pc = "complete"
         /\ StepOf(t)
         /\ cons[t].job \in DOMAIN jobs')
        => LET row == jobs'[cons[t].job]
           IN /\ row.status = "completed"
              /\ row.result_path = ResultPath(cons[t].job)
              /\ row.current_page = cons[t].total
              /\ row.total_pages = cons[t].total]_vars

C6_ConsumerSurvival ==
    [][\A t \in TaskIds :
        /\ (Live(t) /\ ~Live(t)') => (task = t /\ task' = 0)
        /\ (cons[t].pc \in InFlightPcs /\ StepOf(t)) => Live(t)'
        /\ (cons[t].pc = "get" /\ queue # <<>>) => ENABLED Dequeue(t)]_vars

\* C6 witness: a store exception has left _process_job, and the same consumer
\* is now processing the next id.
C6_Witness ==
    \E t \in TaskIds :
        /\ cons[t].last = "raised"
        /\ cons[t].pc \in InFlightPcs
        /\ cons[t].job = 2

\* C7: stop abandons the in-flight job: once stop() has returned, the row of
\* the job that was in flight receives no further write of any kind (no
\* status write, no progress-counter write).
C7_NoWriteAfterStop ==
    [][\A j \in abandoned :
        (j \in DOMAIN jobs /\ j \in DOMAIN jobs') => jobs'[j] = jobs[j]]_vars

\* C8: single consumer: after any sequence of start() and stop() calls at
\* most one consumer task is pulling from the queue.
C8_SingleConsumer == Cardinality({t \in TaskIds : Live(t)}) <= 1

\* C9: enqueue is always enabled and lossless: the ids dequeued so far,
\* followed by the ids waiting in the queue, are exactly the ids enqueued, in
\* enqueue order and each once; and enqueue of the next id is enabled
\* whatever the queue length and the consumers' positions.
C9_EnqueueLossless ==
    /\ deqOrder \o queue = enqOrder
    /\ \A i, k \in DOMAIN enqOrder : i # k => enqOrder[i] # enqOrder[k]
    /\ \A id \in issued : id = Len(enqOrder) + 1 => ENABLED Enqueue(id)

\* C9 witness: an id was enqueued behind a waiting one while a job is being
\* processed, and the consumer has since taken the first of them.
C9_Witness ==
    /\ Len(enqOrder) = MaxJobs
    /\ Len(deqOrder) >= 1
    /\ queue # <<>>
    /\ \E t \in TaskIds : cons[t].pc = "pipeline"

\* C10: absent row is skipped silently: the step a consumer takes from the
\* lookup of an id that has no row writes nothing to the store, creates no
\* row, no directory and no pipeline thread, and returns the consumer to
\* queue.get() (its only other outcome is the store failing the lookup).
C10_AbsentRowSkipped ==
    [][\A t \in TaskIds :
        (/\ cons[t].pc = "lookup"
         /\ GetJobIsNone(jobs, cons[t].job)
         /\ StepOf(t))
        => /\ jobs' = jobs
           /\ outdir' = outdir /\ guestdir' = guestdir
           /\ thread' = thread /\ pending' = pending
           /\ procOrder' = procOrder /\ termOrder' = termOrder
           /\ cons'[t].pc = "get"
           /\ cons'[t].last \in {"skipped", "raised"}]_vars

\* C10 witness: a consumer has skipped the id of a deleted row and is
\* processing the next id; the skipped id has no row and no directory.
C10_Witness ==
    \E t \in TaskIds :
        /\ cons[t].last = "skipped"
        /\ cons[t].pc \in InFlightPcs
        /\ cons[t].job = 2
        /\ 1 \notin DOMAIN jobs /\ 1 \notin outdir /\ 1 \notin guestdir
        /\ thread[1].st = "none"

\* C11: create: a create_job step returns an id no row has or ever had,
\* inserts exactly one row under it, with status queued, both counters 0,
\* the given filename and upload_path, no result_path and no error, leaves
\* every other row as it was, and a get of that id returns that row.
C11_Create ==
    [][DOMAIN born' # DOMAIN born =>
        LET id == ret'.n
        IN /\ id \notin DOMAIN rows /\ id \notin DOMAIN born
           /\ DOMAIN rows' = DOMAIN rows \cup {id}
           /\ \A j \in DOMAIN rows : rows'[j] = rows[j]
           /\ rows'[id].status = "queued"
           /\ rows'[id].current_page = 0 /\ rows'[id].total_pages = 0
           /\ rows'[id].filename = Uploads(id)[1]
           /\ rows'[id].upload_path = Uploads(id)[2]
           /\ rows'[id].result_path = NULL /\ rows'[id].error = NULL
           /\ ~GetJobIsNone(rows', id) /\ GetJob(rows', id) = rows'[id]]_vars

\* C11 witness: two rows created at different times, each queued with its
\* own upload_path.
C11_Witness ==
    /\ DOMAIN rows = {1, 2}
    /\ ret.n = 2
    /\ rows[1].upload_path # rows[2].upload_path
    /\ rows[1].created_at # rows[2].created_at
    /\ rows[2].status = "queued" /\ rows[2].created_at = IsoFormat(now)

\* C12: invalid status is rejected without effect: an update_status step
\* with a status outside VALID_STATUSES raises and leaves every field of
\* every row (updated_at and the extra fields passed included) unchanged.
C12_InvalidStatusRejected ==
    [][\A id \in StoreIds, c \in StatusCalls :
        (c[1] \notin VALID_STATUSES /\ StoreUpdateStatus(id, c[1], c[2]))
        => (ret'.raised /\ rows' = rows)]_vars

\* C12 witness: an update_status call has just raised, at a time later than
\* the last write of a row that is still queued, without an error.
C12_Witness ==
    /\ ret.raised
    /\ \E id \in DOMAIN rows :
        /\ rows[id].status = "queued" /\ rows[id].error = NULL
        /\ rows[id].updated_at # IsoFormat(now)

\* C13: delete: a delete_job(id) step returns true iff a row with that id
\* existed, leaves no row with that id (get returns None), touches no other
\* row, and does so whatever the row's status; get of an id that was never
\* created returns None.
C13_Delete ==
    [][\A id \in StoreIds :
        /\ StoreDeleteJob(id) =>
            /\ ret'.flag <=> id \in DOMAIN rows
            /\ ~ret'.raised
            /\ GetJobIsNone(rows', id) /\ GetJob(rows', id) = NULL
            /\ \A j \in DOMAIN rows \ {id} : j \in DOMAIN rows' /\ rows'[j] = rows[j]
        /\ id \in DOMAIN rows => ENABLED StoreDeleteJob(id)
        /\ id \notin DOMAIN born => GetJob(rows, id) = NULL]_vars

\* C13 witness: delete_job has just returned true for row 1 while row 2,
\* in status failed, is still there.
C13_Witness ==
    /\ ret.flag
    /\ 1 \in DOMAIN born /\ 1 \notin DOMAIN rows
    /\ 2 \in DOMAIN rows /\ rows[2].status = "failed"

\* C14: sweep: a cleanup_old_jobs(age) step removes exactly the rows created
\* strictly before the clock reading minus age hours, leaves every other
\* row unchanged and returns the number of rows it removed.
C14_Sweep ==
    [][\A age \in 0..MaxHour :
        StoreCleanupOldJobs(age) =>
            LET cutoff == HoursBefore(now, age)
                aged == {id \in DOMAIN rows : Before(born[id], cutoff)}
            IN /\ DOMAIN rows' = DOMAIN rows \ aged
               /\ \A j \in DOMAIN rows' : rows'[j] = rows[j]
               /\ ret'.n = Cardinality(aged)
               /\ ~ret'.raised]_vars

\* C14 witness: a sweep has just removed one row and kept a younger one,
\* created in the same hour as the cutoff with microseconds not 0.
C14_Witness ==
    /\ ret.n = 1 /\ Cardinality(DOMAIN born) >= 2
    /\ DOMAIN rows = {2}
    /\ born[2].us # 0 /\ born[2].h < now.h

Uploading == {i \in DOMAIN up : up[i].st = "uploading"}

\* C15: upload concurrency bound: in every state of a publish call at most
\* _UPLOAD_CONCURRENCY (8) uploads are in flight, however many components
\* the bundle has.
C15_UploadBound == Cardinality(Uploading) <= _UPLOAD_CONCURRENCY

\* C15 witness: 8 uploads in flight while a ninth component waits.
C15_Witness ==
    /\ Cardinality(Uploading) = _UPLOAD_CONCURRENCY
    /\ \E i \in DOMAIN up : up[i].st = "waiting"

\* C16: retry policy: an upload is attempted at most 3 times; a successful
\* attempt ends it for good; a failed first or second attempt is followed
\* (after the backoff) by the next attempt; a failed third attempt ends it
\* as failed; and publish fails at the uploads only if some upload ended
\* failed, so that failures recovered by a retry leave it returning one
\* record per component.
C16_RetryPolicy ==
    [][/\ \A i \in DOMAIN up \cap DOMAIN up' :
            /\ up'[i].attempt < _UPLOAD_MAX_RETRIES
            /\ (up[i].st = "uploading" /\ up'[i] # up[i]) =>
                /\ up'[i].attempt = up[i].attempt
                /\ \/ up'[i].st = "done"
                   \/ up'[i].st = "backoff" /\ up[i].attempt + 1 < _UPLOAD_MAX_RETRIES
                   \/ up'[i].st = "failed" /\ up[i].attempt + 1 = _UPLOAD_MAX_RETRIES
            /\ (up[i].st = "backoff" /\ up'[i] # up[i]) =>
                up'[i] = [st |-> "uploading", attempt |-> up[i].attempt + 1]
            /\ up[i].st \in {"done", "failed"} => up'[i] = up[i]
       /\ pub' = "upfailed" => AnyFailed(up')
       /\ (pub = "gather" /\ AllDone(up)) => ENABLED GatherReturns
       /\ pub' = "uploaded" => Len(meta') = Len(Artifacts(comps'))]_vars

\* C16 witness: the first attempt of one component failed, its second
\* succeeded, and publish returned a record for each component.
C16_Witness ==
    /\ pub = "uploaded"
    /\ Len(meta) = MaxArtifacts
    /\ up[1] = [st |-> "done", attempt |-> 1]
    /\ \A i \in DOMAIN up : i # 1 => up[i] = [st |-> "done", attempt |-> 0]

\* C17: aggregation: once publish has returned or failed, no upload task of
\* the call is waiting, uploading or backing off.
C17_GatherWaitsAll ==
    pub \in {"uploaded", "upfailed", "saved", "savefailed", "ended"}
        => AllSettled(up)

\* C18: no rollback on partial failure: no step removes an object from the
\* bucket; when an upload has ended failed, publish does not return and the
\* job ends failed; and once every upload task has ended, the bucket holds
\* the object of each component whose upload succeeded.
C18_NoRollback ==
    [][/\ bucket \subseteq bucket'
       /\ AnyFailed(up') =>
            /\ pub' \notin {"uploaded", "saved", "savefailed"}
            /\ pub' = "ended" => pstatus' = "failed"
       /\ AllSettled(up') =>
            bucket' = {PubUser \o "/" \o PubJob \o "/"
                            \o ToString(Artifacts(comps')[i].id) \o ".png" :
                         i \in {k \in DOMAIN up' : up'[k].st = "done"}}]_vars

\* C18 witness: one component failed all its attempts, the job is marked
\* failed, and the objects of the other components are in the bucket.
C18_Witness ==
    /\ pub = "ended" /\ pstatus = "failed"
    /\ Len(Artifacts(comps)) = MaxArtifacts
    /\ up[1].st = "failed"
    /\ Cardinality(bucket) = MaxArtifacts - 1

\* C19: catalog summary only after full success: the step that inserts the
\* catalog row is taken when every upload of the job has succeeded and no
\* row was inserted before; with an upload that ended failed there is no
\* catalog row.
C19_SummaryAfterUploads ==
    [][/\ catalog' # catalog =>
            /\ AllDone(up) /\ pub = "uploaded"
            /\ Cardinality(bucket) = Len(Artifacts(comps))
            /\ catalog = 0 /\ catalog' = 1
       /\ AnyFailed(up') => catalog' = 0]_vars

\* C19 witness: the catalog row of a bundle of MaxArtifacts components, one
\* of them uploaded at its second attempt.
C19_Witness ==
    /\ catalog = 1
    /\ Len(Artifacts(comps)) = MaxArtifacts
    /\ up[1].attempt = 1
    /\ AllDone(up)

\* C20: publish result: once the list is built it holds, for each component
\* with a payload and in order, one record with the component's id, the
\* public URL of user/job/id.png and no payload; distinct ids have distinct
\* URLs; every object in the bucket is at one of these paths, and when
\* publish returns each of them is there.
C20_PublishResult ==
    pub # "idle" =>
        LET arts == Artifacts(comps)
            target(c) == PubUser \o "/" \o PubJob \o "/" \o ToString(c.id) \o ".png"
            targets == {target(arts[i]) : i \in DOMAIN arts}
        IN /\ Len(meta) = Len(arts)
           /\ \A i \in DOMAIN arts :
                /\ meta[i].id = arts[i].id
                /\ meta[i].url = SupabaseUrl \o "/storage/v1/object/public/scans/"
                                    \o target(arts[i])
                /\ "base64" \notin DOMAIN meta[i]
           /\ \A i, k \in DOMAIN meta : i # k => meta[i].url # meta[k].url
           /\ Cardinality(targets) = Len(arts)
           /\ bucket \subseteq targets
           /\ pub = "uploaded" => bucket = targets

\* C20 witness: publish has returned MaxArtifacts records for a bundle that
\* also held a component without a payload, and every object is stored.
C20_Witness ==
    /\ pub = "uploaded"
    /\ Len(meta) = MaxArtifacts /\ Len(comps) = MaxArtifacts + 1
    /\ Cardinality(bucket) = MaxArtifacts

\* user_id = await get_optional_user(request): the principal of the request
\* that created job id (jobs are named by rank): the odd requests carry a
\* valid token, the even ones none.
RequestOwner(id) == IF id % 2 = 1 THEN PubUser ELSE NULL

\* C21: owner-based routing: the row of a job records the owner its request
\* carried (none for a guest request), and only the result of a job without
\* an owner is routed to the guest directory static/guest/{id}.
C21_OwnerRouting ==
    \A j \in DOMAIN jobs :
        /\ "user_id" \in DOMAIN jobs[j]
        /\ jobs[j].user_id = RequestOwner(j)
        /\ j \in guestdir => RequestOwner(j) = NULL

\* The progress updates of job j handed to the loop and not yet applied, in
\* the order the pipeline emitted them.
PendingOf(j) == SelectSeq(pending, LAMBDA p : p[1] = j)

\* C22: progress ordering across the thread bridge: for each job, a step
\* either leaves the updates in transit alone, or adds the one the pipeline
\* emits (the next page) at the end, or applies the oldest of them to the
\* row; the counters of a row change in no other way before its terminal
\* write; pages in transit are ascending and above the row's counter; the
\* pipeline's next page is enabled whatever is in transit; and the terminal
\* status write happens, and the row is terminal, only with nothing of the
\* job in transit.
C22_ProgressOrder ==
    [][\A j \in JobIds :
        LET q == PendingOf(j)
            q2 == PendingOf(j)'
            applied == q # <<>> /\ q2 = Tail(q)
            emitted == /\ thread[j].st = "pages"
                       /\ q2 = Append(q, <<j, thread[j].page + 1, thread[j].total>>)
                       /\ thread'[j].page = thread[j].page + 1
            both == j \in DOMAIN jobs /\ j \in DOMAIN jobs'
            terminal == both /\ jobs'[j].status # jobs[j].status
                             /\ jobs'[j].status \in {"completed", "failed"}
        IN /\ q2 = q \/ emitted \/ applied
           /\ (applied /\ j \in DOMAIN jobs') =>
                /\ jobs'[j].current_page = q[1][2]
                /\ jobs'[j].total_pages = q[1][3]
           /\ (both /\ ~terminal /\ ~applied) =>
                /\ jobs'[j].current_page = jobs[j].current_page
                /\ jobs'[j].total_pages = jobs[j].total_pages
           /\ \A i \in DOMAIN q :
                /\ i > 1 => q[i - 1][2] < q[i][2]
                /\ j \in DOMAIN jobs => jobs[j].current_page < q[i][2]
           /\ thread[j].st = "pages" => ENABLED ThreadPage(j, FALSE)
           /\ terminal => (q = <<>> /\ thread[j].st = "joined")
           /\ (j \in DOMAIN jobs' /\ jobs'[j].status \in {"completed", "failed"})
                => q2 = <<>>]_vars

\* C22 witness: the pipeline of job 1 emitted two updates and returned
\* before the loop ran any; the first has been applied, the second is still
\* in transit and the consumer has not written the terminal status.
C22_Witness ==
    /\ 1 \in DOMAIN jobs
    /\ jobs[1].status = "processing" /\ jobs[1].current_page = 1
    /\ PendingOf(1) = <<<<1, 2, 2>>>>
    /\ thread[1].st = "returned"

\* C23: progress counters: in every step, a row that is queued has both
\* counters 0; current_page <= total_pages; a completed row has
\* current_page = total_pages; neither counter of a row decreases; and the
\* "completed" write is issued on a row whose counters already are the
\* pipeline's page count, which is also what the write carries for both.
C23_ProgressCounters ==
    [][/\ \A j \in DOMAIN jobs' :
            /\ jobs'[j].status = "queued" =>
                (jobs'[j].current_page = 0 /\ jobs'[j].total_pages = 0)
            /\ jobs'[j].current_page <= jobs'[j].total_pages
            /\ jobs'[j].status = "completed" =>
                jobs'[j].current_page = jobs'[j].total_pages
            /\ j \in DOMAIN jobs =>
                /\ jobs'[j].current_page >= jobs[j].current_page
                /\ jobs'[j].total_pages >= jobs[j].total_pages
       /\ \A t \in TaskIds :
            (cons[t].pc = "complete" /\ StepOf(t)) =>
                LET j == cons[t].job
                    kw == CompletedFields(j, cons[t].total)
                IN /\ kw.current_page = kw.total_pages
                   /\ j \in DOMAIN jobs =>
                        /\ jobs[j].current_page = kw.current_page
                        /\ jobs[j].total_pages = kw.total_pages]_vars

\* C23 witness: the counters of a two-page job have reached 2 of 2 and the
\* consumer is about to issue the "completed" write, while a second row is
\* still queued with both counters 0.
C23_Witness ==
    \E t \in TaskIds :
        /\ cons[t].pc = "complete" /\ cons[t].job = 1 /\ cons[t].total = 2
        /\ 1 \in DOMAIN jobs /\ 2 \in DOMAIN jobs
        /\ jobs[1].current_page = 2 /\ jobs[1].total_pages = 2
        /\ jobs[2].status = "queued" /\ jobs[2].current_page = 0

\* C24: best-effort delete_all: delete_job_from_supabase leaves only by
\* returning, and only through the attempt to delete the catalog row, whether
\* the list call or the remove call succeeded or raised; a failure changes
\* neither the bucket nor the catalog; and once it has returned, the caller's
\* delete of the local row is enabled.
C24_BestEffortDelete ==
    [][/\ del'.pc \in {"none", "remove", "row", "returned", "done"}
       /\ del.pc \in {"none", "remove"} =>
            del'.pc \in {del.pc, "remove", "row"}
       /\ del.pc = "row" => del'.pc \in {"row", "returned"}
       /\ (del'.pc = "returned" /\ del.pc # "returned") =>
            /\ del.pc = "row" /\ del'.tried
            /\ catalog' \in {0, catalog}
            /\ bucket' = bucket
       /\ del'.pc \in {"returned", "done"} => del'.tried
       /\ del.pc = "returned" => ENABLED DeleteLocalRow
       /\ del'.pc = "done" => pstatus' = "deleted"]_vars

\* C24 witness: the list call succeeded, the remove call raised and the
\* delete of the catalog row raised too: the objects and the catalog row
\* are still there, and the local row has been deleted.
C24_Witness ==
    /\ del.pc = "done" /\ del.files # {} /\ del.files \subseteq bucket
    /\ catalog = 1
    /\ pstatus = "deleted"

\* C25: sweeper resilience: an iteration that raises (in get_old_job_paths,
\* while removing files, or in cleanup_old_jobs) leaves the sweeper alive and
\* waiting for its next tick, which is enabled; the sweeper ends only by
\* being cancelled; and a sweep that completes, after faults or not, removes
\* exactly the rows older than 12 hours.
C25_SweeperResilience ==
    [][/\ (\/ SweepListFails
           \/ \E f \in StoreIds : SweepFilesFails(f)
           \/ SweepStore(FALSE)) =>
            /\ sw'.pc = "sleep" /\ sw'.last = "raised"
            /\ rows' = rows
       /\ (sw.pc = "sleep" /\ now.h < MaxSweepHour) => ENABLED SweepSleep
       /\ (sw.pc # "ended" /\ sw'.pc = "ended") =>
            (sw'.last = "cancelled" /\ rows' = rows)
       /\ SweepStore(TRUE) =>
            LET aged == {id \in DOMAIN rows :
                            born[id].h + MaxAgeHours < now.h}
            IN /\ DOMAIN rows' = DOMAIN rows \ aged
               /\ ret'.n = Cardinality(aged)
               /\ sw'.pc = "sleep" /\ sw'.last = "swept"]_vars

\* C25 witness: an iteration raised, and a later one swept the store: it
\* removed the row that had aged and kept the younger one.
C25_Witness ==
    /\ sw.faulted /\ sw.last = "swept" /\ sw.pc = "sleep"
    /\ ret.n = 1
    /\ DOMAIN rows = {2} /\ sw.gone = {1}

\* C26: delivered follow-on: a GET /jobs/{id}/result for a completed row
\* whose result file exists hands out the result and leaves the row
\* delivered; and a row becomes delivered from completed only.
C26_DeliveredAfterRetrieval ==
    [][/\ \A id \in DOMAIN rows :
            (rows[id].status = "completed" /\ GetJobResult(id, TRUE)) =>
                (~ret'.raised /\ rows'[id].status = "delivered")
       /\ \A id \in DOMAIN rows \cap DOMAIN rows' :
            (rows'[id].status = "delivered" /\ rows[id].status # "delivered")
                => rows[id].status = "completed"]_vars

\* C27: outcome fields: in every reachable state a row has an error only if
\* it is failed and a result_path only if it is completed or delivered; a
\* queued or processing row has neither.
C27_OutcomeFields ==
    \A j \in DOMAIN jobs :
        /\ jobs[j].error # NULL => jobs[j].status = "failed"
        /\ jobs[j].result_path # NULL => jobs[j].status \in {"completed", "delivered"}
        /\ jobs[j].status \in {"queued", "processing"} =>
            (jobs[j].error = NULL /\ jobs[j].result_path = NULL)

\* C27 witness: a failed row carrying its error next to a row in processing
\* whose pipeline has returned and whose "completed" write was rejected.
C27_Witness ==
    \E j, k \in DOMAIN jobs, t \in TaskIds :
        /\ jobs[j].status = "failed" /\ jobs[j].error # NULL
        /\ jobs[k].status = "processing"
        /\ cons[t].job = k /\ cons[t].pc = "failwrite" /\ cons[t].err = ErrColumn

\* C28: orphan reclamation: a row left in processing by a stopped worker is
\* not changed again on the worker's behalf: every step leaves such a row as
\* it is (status, counters, outcome fields) or removes it (the sweeper, a
\* delete request).
C28_OrphanUntouched ==
    [][\A j \in abandoned \cap DOMAIN jobs :
        jobs[j].status = "processing" =>
            \/ j \notin DOMAIN jobs'
            \/ /\ jobs'[j].status = "processing"
               /\ jobs'[j].current_page = jobs[j].current_page
               /\ jobs'[j].total_pages = jobs[j].total_pages
               /\ jobs'[j].error = NULL /\ jobs'[j].result_path = NULL]_vars

\* C29: backoff schedule: the waits an upload has slept are, in order, 1 s
\* and 2 s: one wait after each failed attempt but the third, and none
\* after the third, which ends the upload as failed.
C29_BackoffSchedule ==
    \A i \in DOMAIN up :
        /\ Len(slept[i]) <= 2
        /\ Len(slept[i]) >= 1 => slept[i][1] = 1
        /\ Len(slept[i]) >= 2 => slept[i][2] = 2
        /\ up[i].st = "backoff" => Len(slept[i]) = up[i].attempt + 1
        /\ up[i].st \in {"waiting", "uploading", "done"} =>
            Len(slept[i]) = up[i].attempt
        /\ up[i].st = "failed" =>
            (up[i].attempt = 2 /\ Len(slept[i]) = 2)

\* C29 witness: an upload failed three times: it slept 1 s, then 2 s, and
\* ended failed without a third wait.
C29_Witness ==
    \E i \in DOMAIN up :
        /\ up[i].st = "failed"
        /\ slept[i] = <<1, 2>>

\* C30: head-of-line blocking: while a consumer waits for the pipeline call
\* of its job and the call has not returned, a step leaves the job's row
\* processing and leaves every row of a job enqueued after it queued (jobs
\* are named by enqueue rank).
C30_HeadOfLine ==
    [][\A t \in TaskIds :
        (/\ cons[t].pc = "pipeline"
         /\ thread[cons[t].job].st \in {"convert", "pages"}
         /\ thread'[cons[t].job].st \in {"convert", "pages"})
        => \A k \in DOMAIN jobs \cap DOMAIN jobs' :
            /\ k = cons[t].job => jobs'[k].status = jobs[k].status
            /\ (k > cons[t].job /\ jobs[k].status = "queued")
                => jobs'[k].status = "queued"]_vars

\* C31: store frame conditions: update_progress(id, c, t) leaves row id with
\* the counters c and t, whatever they were, and with every other column but
\* updated_at as it was, and leaves the other rows alone; update_status
\* changes no row but the one it names; neither creates or removes a row;
\* and in every step a row that stays keeps its created_at, which is the time
\* of the create_job that made the row of that id.
C31_StoreFrame ==
    [][/\ \A id \in StoreIds, p \in ProgressCalls :
            StoreUpdateProgress(id, p[1], p[2]) =>
                /\ DOMAIN rows' = DOMAIN rows
                /\ \A j \in DOMAIN rows \ {id} : rows'[j] = rows[j]
                /\ id \in DOMAIN rows =>
                    /\ rows'[id].current_page = p[1]
                    /\ rows'[id].total_pages = p[2]
                    /\ \A f \in DOMAIN rows[id] \
                            {"current_page", "total_pages", "updated_at"} :
                        rows'[id][f] = rows[id][f]
       /\ \A id \in StoreIds : \A c \in WorkerStatusCalls(id) :
            StoreUpdateStatus(id, c[1], c[2]) =>
                /\ DOMAIN rows' = DOMAIN rows
                /\ \A j \in DOMAIN rows \ {id} : rows'[j] = rows[j]
       /\ \A j \in DOMAIN rows \cap DOMAIN rows' :
            rows'[j].created_at = rows[j].created_at
       /\ \A j \in DOMAIN rows' : rows'[j].created_at = IsoFormat(born'[j])]_vars

\* C31 witness: a row that the "completed" write left at 1 of 1 has since
\* been set back to 0 of 0 by update_progress, its status and result_path
\* kept, while the other row is still as create_job inserted it.
C31_Witness ==
    \E id, j \in DOMAIN rows :
        /\ rows[id].status = "completed" /\ rows[id].result_path = ResultPath(id)
        /\ rows[id].current_page = 0 /\ rows[id].total_pages = 0
        /\ j # id
        /\ rows[j] = FullRow(Uploads(j)[1], Uploads(j)[2], born[j])

\* The feedback entries attached to job id.
FeedbackOf(id) == {f \in DOMAIN feedback : feedback[f].job_id = id}

\* C32: feedback independence: a create_feedback call that the table accepts
\* adds exactly one entry, for the job id it was given, keeps the entries
\* there were and leaves every job row as it was; a delete_job removes the
\* row it names and a sweep removes every aged row, with the usual results,
\* whether or not feedback is attached to them; and neither touches the
\* feedback table.
C32_FeedbackIndependence ==
    [][/\ \A id \in StoreIds, c \in FeedbackCalls :
            StoreCreateFeedback(id, c[1], c[2]) =>
                /\ rows' = rows /\ born' = born
                /\ \A f \in DOMAIN feedback : feedback'[f] = feedback[f]
                /\ c[1] \in FeedbackTypes =>
                    /\ Cardinality(DOMAIN feedback') = Cardinality(DOMAIN feedback) + 1
                    /\ Cardinality(FeedbackOf(id)') = Cardinality(FeedbackOf(id)) + 1
                    /\ ~ret'.raised
                /\ c[1] \notin FeedbackTypes => (feedback' = feedback /\ ret'.raised)
       /\ \A id \in StoreIds :
            StoreDeleteJob(id) =>
                /\ id \notin DOMAIN rows'
                /\ ret'.flag = (id \in DOMAIN rows)
                /\ feedback' = feedback
       /\ \A age \in 0..MaxHour :
            StoreCleanupOldJobs(age) =>
                /\ \A j \in DOMAIN rows :
                        j \in DOMAIN rows' <=>
                            ~Before(born[j], HoursBefore(now, age))
                /\ ret'.n = Cardinality(DOMAIN rows \ DOMAIN rows')
                /\ feedback' = feedback]_vars

\* C32 witness: the one job there was has feedback attached and has just
\* been deleted (delete_job returned true); the feedback entry is still in
\* its table.
C32_Witness ==
    /\ DOMAIN born = {1} /\ DOMAIN rows = {}
    /\ ret.flag
    /\ FeedbackOf(1) # {}

\* Job j has been put on the queue.
Enqueued(j) == j \in Range(enqOrder)

\* The _process_job call for job j has ended: j was taken from the queue
\* and no consumer holds it.
Processed(j) ==
    /\ j \in Range(deqOrder)
    /\ \A t \in TaskIds : cons[t].job # j

C34_SweepCount ==
    [][/\ CleanupDelete => ret'.n = RowCount(rows, rows')
       /\ cu'.deleted + cu'.swept <= Cardinality(DOMAIN born')]_vars

\* C35: the sweeper cleans the files of every row it removes: the rows the
\* DELETE of cleanup_old_jobs removes are among the rows this iteration
\* listed with get_old_job_paths and whose files it removed.
C35_SweptFilesCleaned ==
    [][CleanupDelete => (DOMAIN rows \ DOMAIN rows') \subseteq sw.old]_vars

\* C36: no resurrection after deletion: the row of a job that has been
\* created and is gone (deleted by a request or swept, queued or in
\* processing at that time) is absent after every step, get_job answering
\* None; and every step a consumer takes on such a job leaves the consumer
\* alive.
C36_NoResurrection ==
    [][\A j \in issued :
        GetJobIsNone(jobs, j) =>
            /\ GetJobIsNone(jobs', j)
            /\ \A t \in TaskIds :
                    (cons[t].job = j /\ StepOf(t)) => Live(t)']_vars

\* C36 witness: the row of job 1 was swept while its pipeline was running
\* and the row of job 2 was deleted; the consumer has since finished with
\* job 1 (the progress updates applied, the failed write returned) and is
\* back at the queue, and both rows are absent.
C36_Witness ==
    /\ issued = {1, 2} /\ DOMAIN jobs = {}
    /\ procOrder = <<1>> /\ termOrder = <<>> /\ thread[1].st = "joined"
    /\ Processed(1)
    /\ 1 \in sw.gone /\ 2 \notin sw.gone /\ sw.last = "swept"
    /\ pending = <<>>
    /\ \E t \in TaskIds : cons[t].pc = "get" /\ cons[t].last = "returned"

\* C37: no guest artifacts for failed jobs: in every reachable state a job
\* whose row is failed has neither its output directory nor its guest
\* directory static/guest/{id}.
C37_NoGuestArtifacts ==
    \A j \in DOMAIN jobs :
        jobs[j].status = "failed" => (j \notin outdir /\ j \notin guestdir)

\* C38: the queue survives stop/start: stop() leaves the queue as it is;
\* while the worker is stopped (or not yet started) a step removes nothing
\* from the queue, enqueue still appends, and the rows of the waiting ids
\* stay as they are (queued) unless a request deletes them; and the ids are
\* taken from the queue, and their rows set to processing, in enqueue
\* order (jobs are named by enqueue rank), across any stop() and start().
C38_QueueSurvives ==
    [][/\ Stop => queue' = queue
       /\ task = 0 =>
            /\ \/ queue' = queue
               \/ \E id \in JobIds : queue' = Append(queue, id)
            /\ \A j \in Range(queue) \cap DOMAIN jobs \cap DOMAIN jobs' :
                    /\ jobs[j].status = "queued"
                    /\ jobs'[j] = jobs[j]
       /\ Ordered(deqOrder') /\ Ordered(procOrder')]_vars

\* The _upload tasks inside "async with sem": in an attempt or in the
\* backoff sleep between two attempts.
Holding == {i \in DOMAIN up : up[i].st \in {"uploading", "backoff"}}

\* C39: semaphore accounting: in every state of a publish call the permits
\* taken are exactly those of the uploads in an attempt or in a backoff
\* wait, at most _UPLOAD_CONCURRENCY (8) of them; an upload that has ended,
\* in success or in final failure, holds none; and once every upload has
\* ended all 8 permits are free.
C39_SemaphoreAccounting ==
    /\ sem \in 0.._UPLOAD_CONCURRENCY
    /\ Cardinality(Holding) <= _UPLOAD_CONCURRENCY
    /\ sem = _UPLOAD_CONCURRENCY - Cardinality(Holding)
    /\ (\A i \in DOMAIN up : up[i].st \in {"done", "failed"}) =>
            sem = _UPLOAD_CONCURRENCY

\* C39 witness: 8 uploads hold the 8 permits, one of them asleep between two
\* attempts, while a ninth waits for a permit.
C39_Witness ==
    /\ Cardinality(Holding) = _UPLOAD_CONCURRENCY /\ sem = 0
    /\ \E i \in DOMAIN up : up[i].st = "backoff"
    /\ \E i \in DOMAIN up : up[i].st = "waiting"

====
